---- MODULE Spec2Model ----
(***************************************************************************)
(* BishengRAGTool (bisheng_langchain/rag/bisheng_rag_tool.py): an object   *)
(* built from a yaml configuration, whose requests retrieve chunks through *)
(* an EnsembleRetriever, cut them to a content budget, optionally sort     *)
(* them by (source, chunk_index) and hand them to a question-answer chain. *)
(***************************************************************************)
EXTENDS Integers, Sequences, FiniteSets

VARIABLES
    yaml,       \* content of config/baseline_v2.yaml, read at line 48
    obj,        \* "new" before __init__, "ok" once it returned, "raised" if it raised
    error,      \* the exception __init__ raised, "" if none
    params,     \* self.params
    retriever,  \* self.retriever: the EnsembleRetriever's members, by class
    qa_chain,   \* self.qa_chain
    pc,         \* "idle", or "query" while one query's calls are served
    results,    \* what each member retriever answers to the current query
    llm,        \* what the chain call does for the current query: "ok" | "error"
    ret_docs,   \* outcome of retrieval_and_rerank(query)
    ret_run,    \* outcome of run(query)
    ret_arun    \* outcome of awaiting arun(query)

vars == <<yaml, obj, error, params, retriever, qa_chain, pc, results, llm,
          ret_docs, ret_run, ret_arun>>

self_vars == <<yaml, obj, error, params, retriever, qa_chain>>

------------------------------------------------------------------------------
\* Bounds of the model.

\* longest page_content of a chunk
MaxLen == 2

\* largest generate.max_content of a configuration
MaxContent == 3

------------------------------------------------------------------------------
\* Configuration.

\* the lookup table of _post_init_retriever
retriever_classes ==
    {"KeywordRetriever", "BaselineVectorRetriever", "MixRetriever",
     "SmallerChunksVectorRetriever"}

\* type strings a configuration file may hold: the four variants and a stranger
TypeNames == retriever_classes \cup {"RerankRetriever"}

\* a three-retriever configuration; the request specification uses its prefixes
DefaultRetrievers ==
    <<"KeywordRetriever", "BaselineVectorRetriever", "MixRetriever">>

SeqsUpTo(S, n) == UNION {[1..k -> S] : k \in 0..n}

\* retriever lists of the request specification
RequestLists == {SubSeq(DefaultRetrievers, 1, k) : k \in 1..Len(DefaultRetrievers)}

\* retriever lists of the construction specification: any type at any position
AnyLists == SeqsUpTo(TypeNames, Len(DefaultRetrievers)) \ {<<>>}

Configs(lists) ==
    [retrievers : lists, max_content : 0..MaxContent,
     sort_by_source_and_index : BOOLEAN]

NoParams == [retrievers |-> <<>>, max_content |-> 0,
             sort_by_source_and_index |-> FALSE]

------------------------------------------------------------------------------
\* Documents.

Sources == {"A", "B"}

Indices == {0, 1}

\* Python compares the source strings by code point
Ord(s) == IF s = "A" THEN 65 ELSE 66

\* a retrieved Document: len stands for len(page_content)
Chunks == [source : Sources, chunk_index : Indices, len : 0..MaxLen]

\* one member's answer: it raised, or a ranked list of chunks
Answers(lists) ==
    {[raised |-> TRUE, docs |-> <<>>]} \cup [raised : {FALSE}, docs : lists]

\* a member fetches at most one chunk
Fetched == {<<>>} \cup {<<d>> : d \in Chunks}

\* a member returns nothing
Nothing == {<<>>}

Identity(d) == <<d.source, d.chunk_index>>

RECURSIVE SumLen(_)
SumLen(docs) ==
    IF docs = <<>> THEN 0 ELSE Head(docs).len + SumLen(Tail(docs))

Range(s) == {s[i] : i \in 1..Len(s)}

------------------------------------------------------------------------------
\* Construction.

\* _post_init_retriever without the membership test of line 85
post_init_retriever_lenient(retriever_type) ==
    [raised |-> FALSE, instance |-> retriever_type]

\* _post_init_retriever(retriever_type, **kwargs): the instance, or ValueError
post_init_retriever(retriever_type) ==
    IF retriever_type \notin retriever_classes
    THEN [raised |-> TRUE, instance |-> retriever_type]
    ELSE [raised |-> FALSE, instance |-> retriever_type]

\* the loop of __init__ over params['retriever']['retrievers'], from entry i
RECURSIVE init_retrievers(_, _, _)
init_retrievers(retrievers, i, retriever_list) ==
    IF i > Len(retrievers)
    THEN [raised |-> FALSE, retriever_list |-> retriever_list]
    ELSE LET made == post_init_retriever(retrievers[i])
         IN  IF made.raised
             THEN [raised |-> TRUE, retriever_list |-> retriever_list]
             ELSE init_retrievers(retrievers, i + 1,
                                  Append(retriever_list, made.instance))

\* yaml.safe_load(f), then retriever.pop('type') on every entry: the loaded
\* entries keep their splitter and retrieval keys only
safe_load(file) ==
    [retrievers |-> [i \in 1..Len(file.retrievers) |-> {"splitter", "retrieval"}],
     max_content |-> file.max_content,
     sort_by_source_and_index |-> file.sort_by_source_and_index]

\* BishengRAGTool(...)
construct ==
    /\ obj = "new"
    /\ LET built == init_retrievers(yaml.retrievers, 1, <<>>)
       IN  IF built.raised
           THEN /\ obj' = "raised"
                /\ error' = "ValueError"
                /\ UNCHANGED <<params, retriever, qa_chain>>
           ELSE /\ obj' = "ok"
                /\ error' = ""
                /\ params' = safe_load(yaml)
                /\ retriever' = built.retriever_list
                /\ qa_chain' = "load_qa_chain"
    /\ UNCHANGED <<yaml, pc, results, llm, ret_docs, ret_run, ret_arun>>

------------------------------------------------------------------------------
\* Requests.

\* the chunks of member i, tagged with the member that produced them
Tagged(answer, i) ==
    [k \in 1..Len(answer.docs) |->
        [source |-> answer.docs[k].source,
         chunk_index |-> answer.docs[k].chunk_index,
         len |-> answer.docs[k].len,
         origin_retriever |-> i]]

\* members' answers concatenated in configuration order; a member that raised
\* contributes nothing
RECURSIVE Concatenated(_, _)
Concatenated(answers, i) ==
    IF i > Len(answers) THEN <<>>
    ELSE (IF answers[i].raised THEN <<>> ELSE Tagged(answers[i], i))
         \o Concatenated(answers, i + 1)

\* keep the first chunk of every (source, chunk_index)
RECURSIVE Deduplicated(_, _)
Deduplicated(docs, seen) ==
    IF docs = <<>> THEN <<>>
    ELSE IF Identity(Head(docs)) \in seen
         THEN Deduplicated(Tail(docs), seen)
         ELSE <<Head(docs)>>
              \o Deduplicated(Tail(docs), seen \cup {Identity(Head(docs))})

\* EnsembleRetriever.get_relevant_documents(query, collection_name)
get_relevant_documents(answers) == Deduplicated(Concatenated(answers, 1), {})

\* the loop of lines 116-121 breaking on >= instead of >
RECURSIVE doc_num_ge(_, _, _, _)
doc_num_ge(docs, i, doc_content_sum, max_content) ==
    IF i > Len(docs) THEN i - 1
    ELSE IF doc_content_sum + docs[i].len >= max_content THEN i - 1
         ELSE doc_num_ge(docs, i + 1, doc_content_sum + docs[i].len, max_content)

\* the loop of lines 116-121: doc_num after walking docs from position i
RECURSIVE doc_num(_, _, _, _)
doc_num(docs, i, doc_content_sum, max_content) ==
    IF i > Len(docs) THEN i - 1
    ELSE IF doc_content_sum + docs[i].len > max_content THEN i - 1
         ELSE doc_num(docs, i + 1, doc_content_sum + docs[i].len, max_content)

\* the sort key of line 128 as a strict order
KeyLess(a, b) ==
    \/ Ord(a.source) < Ord(b.source)
    \/ a.source = b.source /\ a.chunk_index < b.chunk_index

\* insert d after the chunks whose key is not greater (sorted is stable)
RECURSIVE Insert(_, _)
Insert(d, s) ==
    IF s = <<>> THEN <<d>>
    ELSE IF KeyLess(d, Head(s)) THEN <<d>> \o s
         ELSE <<Head(s)>> \o Insert(d, Tail(s))

\* sorted(docs, key=lambda x: (x.metadata['source'], x.metadata['chunk_index']))
RECURSIVE sorted(_)
sorted(docs) ==
    IF docs = <<>> THEN <<>>
    ELSE Insert(docs[Len(docs)], sorted(SubSeq(docs, 1, Len(docs) - 1)))

\* the loop of lines 116-121 with `continue` for `break`: every chunk that
\* still fits is kept
RECURSIVE BestFit(_, _, _)
BestFit(docs, doc_content_sum, max_content) ==
    IF docs = <<>> THEN <<>>
    ELSE IF doc_content_sum + Head(docs).len > max_content
         THEN BestFit(Tail(docs), doc_content_sum, max_content)
         ELSE <<Head(docs)>>
              \o BestFit(Tail(docs), doc_content_sum + Head(docs).len, max_content)

assemble_best_fit(docs, p) ==
    LET cut == BestFit(docs, 0, p.max_content)
    IN  IF p.sort_by_source_and_index THEN sorted(cut) ELSE cut

\* lines 115-129 with the sort moved before the cut
assemble_sort_first(docs, p) ==
    LET ordered == IF p.sort_by_source_and_index THEN sorted(docs) ELSE docs
    IN  SubSeq(ordered, 1, doc_num(ordered, 1, 0, p.max_content))

\* the body of retrieval_and_rerank after the retrieval, on configuration p
assemble(docs, p) ==
    LET cut == SubSeq(docs, 1, doc_num(docs, 1, 0, p.max_content))
    IN  IF p.sort_by_source_and_index THEN sorted(cut) ELSE cut

\* retrieval_and_rerank collecting the members' chunks itself, one member
\* after the other
retrieval_and_rerank_concat(p, answers) ==
    assemble(Concatenated(answers, 1), p)

\* retrieval_and_rerank(query)
retrieval_and_rerank(p, answers) ==
    assemble(get_relevant_documents(answers), p)

NoRet == [kind |-> "none", value |-> "", input_documents |-> <<>>]

\* run(query): what the caller gets, and the documents the chain was given
run(p, answers, chain) ==
    LET docs == retrieval_and_rerank(p, answers)
    IN  IF chain = "ok"
        THEN [kind |-> "return", value |-> "output_text", input_documents |-> docs]
        ELSE \* the handler's log line reads `question`, a name bound nowhere
             [kind |-> "raise", value |-> "NameError", input_documents |-> docs]

\* arun with its own try/except around run, answering with the failure's text
arun_contained(p, answers, chain) ==
    LET got == run(p, answers, chain)
    IN  IF got.kind = "raise"
        THEN [kind |-> "return", value |-> "str(e)",
              input_documents |-> got.input_documents]
        ELSE got

\* await arun(query)
arun(p, answers, chain) == run(p, answers, chain)

\* the indexes and the language model settle what they answer to a new query
NewQuery(lists) ==
    /\ obj = "ok"
    /\ pc = "idle"
    /\ pc' = "query"
    /\ results' \in [1..Len(retriever) -> Answers(lists)]
    /\ llm' \in {"ok", "error"}
    /\ UNCHANGED <<self_vars, ret_docs, ret_run, ret_arun>>

call_retrieval_and_rerank ==
    /\ obj = "ok"
    /\ pc = "query"
    /\ ret_docs = NoRet
    /\ ret_docs' = [kind |-> "return", value |-> "docs",
                    input_documents |-> retrieval_and_rerank(params, results)]
    /\ UNCHANGED <<self_vars, pc, results, llm, ret_run, ret_arun>>

\* run charging the served content to self.params['generate']['max_content']
call_run_charging ==
    /\ obj = "ok"
    /\ pc = "query"
    /\ ret_run = NoRet
    /\ ret_run' = run(params, results, llm)
    /\ params' = [params EXCEPT !.max_content =
                      @ - SumLen(retrieval_and_rerank(params, results))]
    /\ UNCHANGED <<yaml, obj, error, retriever, qa_chain, pc, results, llm,
                   ret_docs, ret_arun>>

call_run ==
    /\ obj = "ok"
    /\ pc = "query"
    /\ ret_run = NoRet
    /\ ret_run' = run(params, results, llm)
    /\ UNCHANGED <<self_vars, pc, results, llm, ret_docs, ret_arun>>

call_arun ==
    /\ obj = "ok"
    /\ pc = "query"
    /\ ret_arun = NoRet
    /\ ret_arun' = arun(params, results, llm)
    /\ UNCHANGED <<self_vars, pc, results, llm, ret_docs, ret_run>>

\* the response is returned; chunks and answers of the request are discarded
Discard ==
    /\ pc = "query"
    /\ pc' = "idle"
    /\ results' = <<>>
    /\ llm' = "ok"
    /\ ret_docs' = NoRet
    /\ ret_run' = NoRet
    /\ ret_arun' = NoRet
    /\ UNCHANGED self_vars

------------------------------------------------------------------------------
\* Specifications.

InitWith(lists) ==
    /\ yaml \in Configs(lists)
    /\ obj = "new"
    /\ error = ""
    /\ params = NoParams
    /\ retriever = <<>>
    /\ qa_chain = "none"
    /\ pc = "idle"
    /\ results = <<>>
    /\ llm = "ok"
    /\ ret_docs = NoRet
    /\ ret_run = NoRet
    /\ ret_arun = NoRet

Calls == call_retrieval_and_rerank \/ call_run \/ call_arun \/ Discard

\* requests: a configuration of one to three known retrievers, each fetching
\* at most one chunk
Init == InitWith(RequestLists)

Next == construct \/ NewQuery(Fetched) \/ Calls

Spec == Init /\ [][Next]_vars

\* construction: any retriever list, members that find nothing or raise
InitAny == InitWith(AnyLists)

NextAny == construct \/ NewQuery(Nothing) \/ Calls

SpecInit == InitAny /\ [][NextAny]_vars

------------------------------------------------------------------------------
\* Notions the properties share.

\* the candidate list the ensemble hands to retrieval_and_rerank
Candidates == get_relevant_documents(results)

Asked == obj = "ok" /\ pc = "query"

Count(d, s) == Cardinality({k \in 1..Len(s) : s[k] = d})

SameBag(s, t) == \A d \in Range(s) \cup Range(t) : Count(d, s) = Count(d, t)

Ascending(s) == \A k \in 1..(Len(s) - 1) : ~KeyLess(s[k + 1], s[k])

Unique(s) ==
    \A i, j \in 1..Len(s) : i # j => Identity(s[i]) # Identity(s[j])

Returns(i, d) ==
    \E m \in 1..Len(results[i].docs) : Identity(results[i].docs[m]) = Identity(d)

\* every chunk of s is the instance of the first member that returned its identity
FirstSeen(s) ==
    \A k \in 1..Len(s) :
        /\ s[k].origin_retriever \in 1..Len(results)
        /\ \E m \in 1..Len(results[s[k].origin_retriever].docs) :
              LET r == results[s[k].origin_retriever].docs[m]
              IN  Identity(r) = Identity(s[k]) /\ r.len = s[k].len
        /\ \A i \in 1..(s[k].origin_retriever - 1) : ~Returns(i, s[k])

WithSort(p, flag) == [p EXCEPT !.sort_by_source_and_index = flag]

HasUnknown(file) ==
    \E i \in 1..Len(file.retrievers) : file.retrievers[i] \notin retriever_classes

Raised == {i \in 1..Len(results) : results[i].raised}

\* the deduplicated merge of the members that did not raise, built member by member
RECURSIVE MergeOf(_, _)
MergeOf(members, i) ==
    IF i > Len(results) THEN <<>>
    ELSE (IF i \in members THEN Tagged(results[i], i) ELSE <<>>)
         \o MergeOf(members, i + 1)

DedupOfOthers == Deduplicated(MergeOf((1..Len(results)) \ Raised, 1), {})

------------------------------------------------------------------------------
\* Properties.

\* C1: run is total: it returns the chain's output text when the chain
\* succeeds, and the text of the failure, without raising, when the chain fails.
C1_RunTotal ==
    ret_run # NoRet =>
        /\ ret_run.kind = "return"
        /\ ret_run.value = (IF llm = "ok" THEN "output_text" ELSE "str(e)")

\* C2: the context returned by retrieval_and_rerank has total content length
\* at most max_content and is, before the reorder, a prefix of the candidates.
C2_BudgetPrefix ==
    (Asked /\ ret_docs # NoRet) =>
        LET out == ret_docs.input_documents
            pre == SubSeq(Candidates, 1, Len(out))
        IN  /\ SumLen(out) <= params.max_content
            /\ Len(out) <= Len(Candidates)
            /\ IF params.sort_by_source_and_index
               THEN SameBag(out, pre)
               ELSE out = pre

\* C2 happens: the context is cut short of a later candidate that would still fit.
C2_Witness ==
    /\ Asked
    /\ ret_docs # NoRet
    /\ LET out == ret_docs.input_documents
       IN  /\ Len(out) >= 1
           /\ \E j \in (Len(out) + 2)..Len(Candidates) :
                 SumLen(out) + Candidates[j].len <= params.max_content

\* C3: when one of three retrievers raises, run raises nothing and works on the
\* deduplicated merge of the other two retrievers' results.
C3_GracefulDegradation ==
    (Asked /\ Len(results) = 3 /\ Cardinality(Raised) = 1 /\ ret_run # NoRet) =>
        /\ ret_run.kind = "return"
        /\ ret_run.input_documents = assemble(DedupOfOthers, params)

\* C4: the chunks returned with sort_by_source_and_index enabled are those
\* returned with it disabled; enabled, they come ascending by (source, chunk_index).
C4_ReorderAfterCut ==
    (Asked /\ ret_docs # NoRet) =>
        LET out == ret_docs.input_documents
            flag == params.sort_by_source_and_index
        IN  /\ SameBag(out, retrieval_and_rerank(WithSort(params, ~flag), results))
            /\ flag => Ascending(out)

\* C4 happens: the budget dropped a candidate and the sort moved the survivors.
C4_Witness ==
    /\ Asked
    /\ ret_docs # NoRet
    /\ params.sort_by_source_and_index
    /\ Len(ret_docs.input_documents) < Len(Candidates)
    /\ ret_docs.input_documents
         # retrieval_and_rerank(WithSort(params, FALSE), results)

\* C5: a configuration with a retriever type outside the four variants makes
\* construction raise; no instance exists and no request is ever served.
C5_UnknownTypeFailsFast ==
    /\ [](HasUnknown(yaml) =>
            /\ obj \in {"new", "raised"}
            /\ retriever = <<>>
            /\ qa_chain = "none"
            /\ pc = "idle"
            /\ ret_docs = NoRet /\ ret_run = NoRet /\ ret_arun = NoRet)
    /\ [][(HasUnknown(yaml) /\ obj = "new") =>
            (obj' = "raised" /\ error' = "ValueError")]_vars

\* C5 happens: construction raised on a stranger that follows two known types.
C5_Witness ==
    /\ obj = "raised"
    /\ Len(yaml.retrievers) = 3
    /\ yaml.retrievers[1] \in retriever_classes
    /\ yaml.retrievers[2] \in retriever_classes
    /\ yaml.retrievers[3] \notin retriever_classes

\* C6: for the same retriever results and the same chain outcome, arun yields
\* the outcome of run, with the same documents in the same order given to the chain.
C6_ArunIsRun ==
    (ret_run # NoRet /\ ret_arun # NoRet) => ret_arun = ret_run

\* C6 happens: both entry points served a query whose context was sorted.
C6_Witness ==
    /\ ret_run # NoRet
    /\ ret_arun # NoRet
    /\ params.sort_by_source_and_index
    /\ Len(ret_arun.input_documents) >= 2
    /\ ret_arun.input_documents # SubSeq(Candidates, 1, 2)

\* C7: with max_content 0, no candidate, or a first candidate longer than
\* max_content, retrieval_and_rerank returns the empty sequence and run calls
\* the chain without documents and returns a string.
C7_EmptyContext ==
    (Asked /\ (\/ params.max_content = 0
               \/ Candidates = <<>>
               \/ Candidates[1].len > params.max_content)) =>
        /\ ret_docs # NoRet => ret_docs.input_documents = <<>>
        /\ ret_run # NoRet =>
              ret_run.kind = "return" /\ ret_run.input_documents = <<>>

C9_LongestPrefix ==
    (Asked /\ ret_docs # NoRet) =>
        LET out == ret_docs.input_documents
            Kept(i) == \E k \in 1..Len(out) : out[k] = Candidates[i]
        IN  \A i \in 1..Len(Candidates) :
                Kept(i) <=>
                    /\ SumLen(SubSeq(Candidates, 1, i)) <= params.max_content
                    /\ \A j \in 1..(i - 1) : Kept(j)

\* C9 happens: the kept chunks land exactly on max_content, the next candidate
\* overflows, and the one after it would fit on its own.
C9_Witness ==
    /\ Asked
    /\ ret_docs # NoRet
    /\ params.max_content > 0
    /\ SumLen(ret_docs.input_documents) = params.max_content
    /\ Len(Candidates) >= Len(ret_docs.input_documents) + 2
    /\ Candidates[Len(ret_docs.input_documents) + 1].len > 0
    /\ Candidates[Len(ret_docs.input_documents) + 2].len <= params.max_content

\* C10: once built, params, the retriever set and the chain stay what
\* construction made of the configuration, whatever was served, and every
\* context is the one that configuration assigns to the retrievers' results.
C10_Stateless ==
    obj = "ok" =>
        /\ params = safe_load(yaml)
        /\ retriever = yaml.retrievers
        /\ qa_chain = "load_qa_chain"
        /\ \A ret \in {ret_docs, ret_run, ret_arun} :
              ret # NoRet =>
                  ret.input_documents
                    = assemble(get_relevant_documents(results), safe_load(yaml))

\* C10 happens: the three calls served one query with a non-empty context.
C10_Witness ==
    /\ Asked
    /\ ret_docs # NoRet /\ ret_run # NoRet /\ ret_arun # NoRet
    /\ Len(ret_docs.input_documents) >= 2

====
